---------------------------- MODULE Spec2Model ----------------------------
(***************************************************************************)
(* Model of scraper/scrape_lodge.py: the wikitext parser, the change       *)
(* detector, the snapshot/changelog writer and the run loop of main().     *)
(*                                                                         *)
(* Text is modelled as a sequence of tokens.  A token stands for a fixed   *)
(* piece of text: the one-character tokens " ", "\n", "|", "{", "}", "-",  *)
(* "=", the digits and the quotes are the characters themselves, the other *)
(* tokens ("!colspan=", "class=", "Pok", "Food", ...) are words that the   *)
(* documents of the model never split.  The string operations of the code  *)
(* (strip, startswith, split, the three regular expressions) are computed  *)
(* on these sequences.                                                     *)
(***************************************************************************)
EXTENDS Integers, Sequences, FiniteSets, TLC

VARIABLES
    pc,             \* position of the modelled process
    dataFile,       \* DATA_FILE on disk: <<>> when absent, else <<document>>
    changelogFile,  \* CHANGELOG_FILE on disk: <<>> when absent, else <<document>>
    clock,          \* the value datetime.now() formats at the next save
    existing_data,  \* main: existing_data / compare_data: old_data
    changelog,      \* main: changelog (as loaded)
    all_trainers,   \* main: the work list
    i,              \* main: index of the loop over all_trainers (0-based)
    new_data,       \* main: new_data
    errors,         \* main: errors
    changes,        \* main: changes
    exit_code,      \* process exit code of the last finished run (-1: none yet)
    last_call,      \* the last of api_request / time.sleep(0.5) the loop made
    fetched,        \* per loop iteration, in order: <<name, data api_request gave>>
    prev_errors,    \* the error list the previous run stored in the metadata
    quiet,          \* number of save_data calls so far that had no changes
    wikitext,       \* parser input
    result          \* parser output

vars == <<pc, dataFile, changelogFile, clock, existing_data, changelog,
          all_trainers, i, new_data, errors, changes, exit_code, last_call,
          fetched, prev_errors, quiet, wikitext, result>>

-----------------------------------------------------------------------------
(* Text helpers: Python's str methods on token sequences.                  *)

NL == "\n"

IsSpace(t) == t \in {" ", NL}

RECURSIVE LStrip(_)
LStrip(s) ==
    IF s = <<>> THEN s
    ELSE IF IsSpace(Head(s)) THEN LStrip(Tail(s)) ELSE s

RECURSIVE RStrip(_)
RStrip(s) ==
    IF s = <<>> THEN s
    ELSE IF IsSpace(s[Len(s)]) THEN RStrip(SubSeq(s, 1, Len(s) - 1)) ELSE s

\* str.strip()
Strip(s) == RStrip(LStrip(s))

\* str.startswith(p)
StartsWith(s, p) == Len(s) >= Len(p) /\ SubSeq(s, 1, Len(p)) = p

\* 1-based index of the leftmost occurrence of p in s, 0 when there is none
Find(s, p) ==
    LET hits == {k \in 1..(Len(s) - Len(p) + 1) : SubSeq(s, k, k + Len(p) - 1) = p}
    IN  IF hits = {} THEN 0 ELSE CHOOSE k \in hits : \A h \in hits : k <= h

\* p in s
Contains(s, p) == Find(s, p) # 0

\* str.split(sep)
RECURSIVE Split(_, _)
Split(s, sep) ==
    LET k == Find(s, sep)
    IN  IF k = 0 THEN <<s>>
        ELSE <<SubSeq(s, 1, k - 1)>> \o Split(SubSeq(s, k + Len(sep), Len(s)), sep)

\* the first index >= k of s that holds no whitespace (Len(s) + 1 when none): \s*
RECURSIVE SkipSpace(_, _)
SkipSpace(s, k) ==
    IF k <= Len(s) /\ IsSpace(s[k]) THEN SkipSpace(s, k + 1) ELSE k

\* dict[k] = v
Put(f, k, v) == [x \in (DOMAIN f) \cup {k} |-> IF x = k THEN v ELSE f[x]]

-----------------------------------------------------------------------------
(* parse_tier_content                                                      *)

Quotes == {"\"", "'"}
Digits == {"2", "3"}

\* current_category = None
NoCategory == <<>>

\* re.match(r'!colspan=["\']?\d+["\']?\|(.+)', line): group(1), or <<>> when
\* the line does not match (group(1) itself is never empty)
RECURSIVE SkipDigits(_, _)
SkipDigits(s, k) ==
    IF k <= Len(s) /\ s[k] \in Digits THEN SkipDigits(s, k + 1) ELSE k

cat_match(line) ==
    IF ~StartsWith(line, <<"!colspan=">>) THEN <<>>
    ELSE LET q1 == IF Len(line) >= 2 /\ line[2] \in Quotes THEN 3 ELSE 2
             d  == SkipDigits(line, q1)
             q2 == IF d <= Len(line) /\ line[d] \in Quotes THEN d + 1 ELSE d
         IN  IF d > q1 /\ q2 <= Len(line) /\ line[q2] = "|" /\ q2 < Len(line)
             THEN SubSeq(line, q2 + 1, Len(line))
             ELSE <<>>

\* the appends of lines 153-159 for one topic line's raw text
RECURSIVE NonEmptyStripped(_)
NonEmptyStripped(pieces) ==
    IF pieces = <<>> THEN <<>>
    ELSE LET t == Strip(Head(pieces))
         IN  (IF t # <<>> THEN <<t>> ELSE <<>>) \o NonEmptyStripped(Tail(pieces))

TopicsOf(raw) ==
    IF Contains(raw, <<"|", "|">>)
    THEN NonEmptyStripped(Split(raw, <<"|", "|">>))
    ELSE <<raw>>

\* faulty variant: a repeated category header keeps the list it already has
ResetCategory_Keep(cats, c) == IF c \in DOMAIN cats THEN cats ELSE Put(cats, c, <<>>)

\* line 141: categories[current_category] = []
ResetCategory(cats, c) == Put(cats, c, <<>>)

\* one iteration of the loop over content.split("\n"); st is
\* [categories, current_category]

TierLine(st, rawline) ==
    LET line == Strip(rawline)
        grp  == cat_match(line)
    IN  IF \/ line = <<>>
           \/ line = <<"|", "-">>
           \/ line = <<"|", "}">>
           \/ StartsWith(line, <<"{", "|">>)
        THEN st
        ELSE IF grp # <<>>
        THEN LET c0 == Strip(grp)
                 c  == IF Contains(c0, <<"Pok">>) THEN <<"Pok", "emon">> ELSE c0
             IN  [categories |-> ResetCategory(st.categories, c),
                  current_category |-> c]
        ELSE IF /\ st.current_category # NoCategory
                /\ StartsWith(line, <<"|">>)
                /\ ~StartsWith(line, <<"{", "|">>)
        THEN LET raw == Strip(Tail(line))
             IN  IF \/ raw = <<>>
                    \/ StartsWith(raw, <<"class=">>)
                    \/ StartsWith(raw, <<"style=">>)
                 THEN st
                 ELSE [st EXCEPT !.categories[st.current_category] =
                                     @ \o TopicsOf(raw)]
        ELSE st

RECURSIVE TierLines(_, _)
TierLines(st, lines) ==
    IF lines = <<>> THEN st
    ELSE TierLines(TierLine(st, Head(lines)), Tail(lines))

parse_tier_content(content) ==
    TierLines([categories |-> <<>>, current_category |-> NoCategory],
              Split(content, <<NL>>)).categories

-----------------------------------------------------------------------------
(* parse_wikitext                                                          *)

TierNames == {"Interesting", "Exciting", "Super Exciting"}

\* r"===\s*(Interesting|Exciting|Super Exciting)\s*===" matched at index k:
\* the index of the closing "===", or 0 when there is no match at k
TierMatchEnd(w, k) ==
    IF w[k] # "===" THEN 0
    ELSE LET j == SkipSpace(w, k + 1)
         IN  IF j > Len(w) \/ w[j] \notin TierNames THEN 0
             ELSE LET m == SkipSpace(w, j + 1)
                  IN  IF m <= Len(w) /\ w[m] = "===" THEN m ELSE 0

\* list(tier_pattern.finditer(wikitext)), scanning from index `from`
RECURSIVE tier_matches(_, _)
tier_matches(w, from) ==
    LET hits == {k \in from..Len(w) : TierMatchEnd(w, k) # 0}
    IN  IF hits = {} THEN <<>>
        ELSE LET k == CHOOSE h \in hits : \A g \in hits : h <= g
                 m == TierMatchEnd(w, k)
             IN  <<[start |-> k, end |-> m, name |-> w[SkipSpace(w, k + 1)]]>>
                 \o tier_matches(w, m + 1)

\* wikitext[start:end] of the last match: up to re.search(r"==\s*Scrapbook"),
\* which also matches the last two characters of a "===" token and then
\* leaves that token's first "=" in the content
LastTierContent(w, m) ==
    LET hits == {p \in (m + 1)..Len(w) :
                    /\ w[p] \in {"==", "==="}
                    /\ SkipSpace(w, p + 1) <= Len(w)
                    /\ w[SkipSpace(w, p + 1)] = "Scrapbook"}
    IN  IF hits = {} THEN SubSeq(w, m + 1, Len(w))
        ELSE LET p == CHOOSE h \in hits : \A g \in hits : h <= g
             IN  SubSeq(w, m + 1, p - 1) \o (IF w[p] = "===" THEN <<"=">> ELSE <<>>)

\* faulty variant: the section is stored whatever parse_tier_content gave
StoreTier_Always(tiers, tier_name, cats) == Put(tiers, tier_name, cats)

\* lines 118-119: the section is stored when parse_tier_content gave a
\* non-empty dict
StoreTier(tiers, tier_name, cats) ==
    IF cats # <<>> THEN Put(tiers, tier_name, cats) ELSE tiers

RECURSIVE ParseTiers(_, _, _, _)
ParseTiers(w, matches, n, tiers) ==
    IF n > Len(matches) THEN tiers
    ELSE LET tier_content ==
                 IF n + 1 <= Len(matches)
                 THEN SubSeq(w, matches[n].end + 1, matches[n + 1].start - 1)
                 ELSE LastTierContent(w, matches[n].end)
         IN  ParseTiers(w, matches, n + 1,
                        StoreTier(tiers, matches[n].name,
                                  parse_tier_content(tier_content)))

parse_wikitext(w, trainer_name) ==
    [name |-> trainer_name, tiers |-> ParseTiers(w, tier_matches(w, 1), 1, <<>>)]

-----------------------------------------------------------------------------
(* Ordering and small helpers for compare_data and save_data               *)

Range(s) == {s[k] : k \in DOMAIN s}

\* dict.get(k, default)
Get(d, k, default) == IF k \in DOMAIN d THEN d[k] ELSE default

\* every string of the model, in Python's (code point) order
CodePoints ==
    <<"\n", " ", "!", "!colspan=", "\"", "'", "-", "2", "3", "=", "==", "===",
      "Acerola", "Blue", "Cynthia", "Exciting", "Expeditions", "Fav", "Food",
      "Hobby", "Interesting", "Lodge Exchange", "Other", "Pok", "Redecorate",
      "Scrapbook", "Super Exciting", "Type", "X", "Y", "class=", "emon",
      "style=", "{", "|", "}">>

Rank(t) == CHOOSE k \in 1..Len(CodePoints) : CodePoints[k] = t

\* a < b for trainer and tier names (one string each)
StrLess(a, b) == Rank(a) < Rank(b)

\* a < b for texts (token sequences): lexicographic
RECURSIVE TextLess(_, _)
TextLess(a, b) ==
    IF a = <<>> THEN b # <<>>
    ELSE IF b = <<>> THEN FALSE
    ELSE IF Head(a) = Head(b) THEN TextLess(Tail(a), Tail(b))
    ELSE StrLess(Head(a), Head(b))

\* sorted(S) for a set of names
RECURSIVE sorted(_)
sorted(S) ==
    IF S = {} THEN <<>>
    ELSE LET m == CHOOSE x \in S : \A y \in S \ {x} : StrLess(x, y)
         IN  <<m>> \o sorted(S \ {m})

\* sorted(S) for a set of texts
RECURSIVE sorted_texts(_)
sorted_texts(S) ==
    IF S = {} THEN <<>>
    ELSE LET m == CHOOSE x \in S : \A y \in S \ {x} : TextLess(x, y)
         IN  <<m>> \o sorted_texts(S \ {m})

\* sep.join(texts)
RECURSIVE Join(_, _)
Join(texts, sep) ==
    IF texts = <<>> THEN <<>>
    ELSE IF Len(texts) = 1 THEN texts[1]
    ELSE texts[1] \o sep \o Join(Tail(texts), sep)

RECURSIVE Sum(_, _)
Sum(f, S) ==
    IF S = {} THEN 0
    ELSE LET x == CHOOSE y \in S : TRUE IN f[x] + Sum(f, S \ {x})

\* sum(sum(len(items) for items in cats.values()) for cats in tiers.values())
TopicCount(tiers) ==
    Sum([t \in DOMAIN tiers |->
            Sum([c \in DOMAIN tiers[t] |-> Len(tiers[t][c])], DOMAIN tiers[t])],
        DOMAIN tiers)

-----------------------------------------------------------------------------
(* compare_data                                                            *)

\* faulty variant: every name of new_data is taken as new
NewNames_NoSubtract(old_data, new_data_) == DOMAIN new_data_

\* lines 238-248
NewNames(old_data, new_data_) == (DOMAIN new_data_) \ (DOMAIN old_data)

NewTrainerRecord(new_data_, name) ==
    LET tiers == new_data_[name].tiers
    IN  [type |-> "new_trainer", trainer |-> name,
         details |-> <<ToString(Cardinality(DOMAIN tiers)), " tiers, ",
                       ToString(TopicCount(tiers)), " topics">>]

\* faulty variant: every name of old_data is taken as removed
RemovedNames_NoSubtract(old_data, new_data_) == DOMAIN old_data

\* lines 251-255
RemovedNames(old_data, new_data_) == (DOMAIN old_data) \ (DOMAIN new_data_)

RemovedTrainerRecord(name) == [type |-> "removed_trainer", trainer |-> name]

\* faulty variant: the removed topics are not reported
CatDetails_OnlyAdded(tier_name, cat_name, old_cats, new_cats) ==
    LET old_topics == Range(Get(old_cats, cat_name, <<>>))
        new_topics == Range(Get(new_cats, cat_name, <<>>))
        added   == sorted_texts(new_topics \ old_topics)
    IN  IF added # <<>>
        THEN << <<"+[", tier_name, "/">> \o cat_name \o <<"]: ">>
                \o Join(added, <<", ">>) >>
        ELSE <<>>

\* lines 274-285: the annotations of one (tier, category) pair
CatDetails(tier_name, cat_name, old_cats, new_cats) ==
    LET old_topics == Range(Get(old_cats, cat_name, <<>>))
        new_topics == Range(Get(new_cats, cat_name, <<>>))
        added   == sorted_texts(new_topics \ old_topics)
        removed == sorted_texts(old_topics \ new_topics)
    IN  (IF added # <<>>
         THEN << <<"+[", tier_name, "/">> \o cat_name \o <<"]: ">>
                 \o Join(added, <<", ">>) >>
         ELSE <<>>)
        \o
        (IF removed # <<>>
         THEN << <<"-[", tier_name, "/">> \o cat_name \o <<"]: ">>
                 \o Join(removed, <<", ">>) >>
         ELSE <<>>)

\* lines 273-285 over sorted(all_cat_names)
RECURSIVE CatsDetails(_, _, _, _)
CatsDetails(tier_name, cat_names, old_cats, new_cats) ==
    IF cat_names = <<>> THEN <<>>
    ELSE CatDetails(tier_name, Head(cat_names), old_cats, new_cats)
         \o CatsDetails(tier_name, Tail(cat_names), old_cats, new_cats)

\* lines 268-285 over sorted(all_tier_names)
RECURSIVE TiersDetails(_, _, _)
TiersDetails(tier_names, old_tiers, new_tiers) ==
    IF tier_names = <<>> THEN <<>>
    ELSE LET old_cats == Get(old_tiers, Head(tier_names), <<>>)
             new_cats == Get(new_tiers, Head(tier_names), <<>>)
         IN  CatsDetails(Head(tier_names),
                         sorted_texts((DOMAIN old_cats) \cup (DOMAIN new_cats)),
                         old_cats, new_cats)
             \o TiersDetails(Tail(tier_names), old_tiers, new_tiers)

\* lines 259-292: the records (none or one) of a name in both datasets.
\* json.dumps(.., sort_keys=True) of two tier mappings are equal exactly when
\* the mappings are equal: same keys, same lists in the same order.
ModifiedRecords(old_data, new_data_, name) ==
    LET old_tiers == old_data[name].tiers
        new_tiers == new_data_[name].tiers
        details == TiersDetails(sorted((DOMAIN old_tiers) \cup (DOMAIN new_tiers)),
                                old_tiers, new_tiers)
    IN  IF old_tiers = new_tiers THEN <<>>
        ELSE IF details # <<>>
        THEN <<[type |-> "modified_trainer", trainer |-> name,
                details |-> Join(details, <<"; ">>)]>>
        ELSE <<>>

RECURSIVE ModifiedAll(_, _, _)
ModifiedAll(old_data, new_data_, names) ==
    IF names = <<>> THEN <<>>
    ELSE ModifiedRecords(old_data, new_data_, Head(names))
         \o ModifiedAll(old_data, new_data_, Tail(names))

compare_data(old_data, new_data_) ==
    LET added   == sorted(NewNames(old_data, new_data_))
        removed == sorted(RemovedNames(old_data, new_data_))
        both    == sorted((DOMAIN old_data) \cap (DOMAIN new_data_))
    IN  [k \in 1..Len(added) |-> NewTrainerRecord(new_data_, added[k])]
        \o [k \in 1..Len(removed) |-> RemovedTrainerRecord(removed[k])]
        \o ModifiedAll(old_data, new_data_, both)

-----------------------------------------------------------------------------
(* load_existing_data, load_changelog, save_data                           *)

\* changelog["updates"][:50]
KeepLast == 50

Take(s, n) == SubSeq(s, 1, IF Len(s) < n THEN Len(s) ELSE n)

load_existing_data(file) ==
    IF file = <<>> THEN <<>>
    ELSE [k \in (DOMAIN file[1]) \ {"_metadata"} |-> file[1][k]]

load_changelog(file) ==
    IF file = <<>> THEN [updates |-> <<>>] ELSE file[1]

\* faulty variant: the new entry is put at position 0 and nothing is cut
UpdateChangelog_NoCap(changelog_, entry) ==
    [changelog_ EXCEPT !.updates = <<entry>> \o @]

\* lines 336-344
UpdateChangelog(changelog_, entry) ==
    [changelog_ EXCEPT !.updates = Take(<<entry>> \o @, KeepLast)]

\* lines 314-327: the snapshot document
SnapshotOf(new_data_, errors_, now) ==
    [k \in {"_metadata"} \cup DOMAIN new_data_ |->
        IF k \in DOMAIN new_data_ THEN new_data_[k]
        ELSE [last_updated |-> now,
              trainer_count |-> Cardinality(DOMAIN new_data_),
              total_topics |->
                  Sum([n \in DOMAIN new_data_ |-> TopicCount(new_data_[n].tiers)],
                      DOMAIN new_data_),
              source |-> "pokemon-masters-ex-game.fandom.com",
              scraper_version |-> "2.0",
              errors |-> errors_]]

\* the two documents save_data writes: [data, changelog]
save_data(new_data_, changes_, changelog_, errors_, now) ==
    [data |-> SnapshotOf(new_data_, errors_, now),
     changelog |->
        IF changes_ # <<>>
        THEN UpdateChangelog(changelog_,
                             [date |-> now,
                              trainer_count |-> Cardinality(DOMAIN new_data_),
                              change_count |-> Len(changes_),
                              changes |-> changes_])
        ELSE changelog_]

-----------------------------------------------------------------------------
(* api_request, discover_trainers                                          *)

MAX_RETRIES == 3

\* the value None (no JSON object of the model has the key "None")
None == [None |-> TRUE]

\* What the attempts of one api_request call meet, in order: a record whose
\* outcome is "http_error" (status != 200), "non_json" (content type),
\* "exception", or "json" with the object resp.json() gives.  The call
\* returns the first JSON object met within MAX_RETRIES attempts, else None.
Failure(kind) == [outcome |-> kind]
Json(data) == [outcome |-> "json", data |-> data]

RECURSIVE Attempt(_, _)
Attempt(attempts, attempt) ==
    IF attempt >= MAX_RETRIES \/ attempt >= Len(attempts) THEN None
    ELSE IF attempts[attempt + 1].outcome # "json"
    THEN Attempt(attempts, attempt + 1)
    ELSE attempts[attempt + 1].data

api_request(attempts) == Attempt(attempts, 0)

HARDCODED_TRAINERS == <<"Acerola">>

SKIP_PAGES ==
    {<<"Trainer Lodge">>, <<"Trainer Lodge/", "Expeditions">>,
     <<"Trainer Lodge/", "Lodge Exchange">>, <<"Trainer Lodge/", "Redecorate">>}

skip_names == {"Expeditions", "Lodge Exchange", "Redecorate"}

\* lines 188-194; a title is <<"Trainer Lodge/", name>> or another text, and
\* every name of the model is 1 to 49 characters long
RECURSIVE MemberNames(_)
MemberNames(members) ==
    IF members = <<>> THEN <<>>
    ELSE LET title == Get(Head(members), "title", <<>>)
         IN  (IF /\ StartsWith(title, <<"Trainer Lodge/">>)
                 /\ title \notin SKIP_PAGES
                 /\ Len(title) = 2
              THEN <<title[2]>> ELSE <<>>)
             \o MemberNames(Tail(members))

discover_trainers(data) ==
    IF data = None \/ data = <<>> THEN <<>>
    ELSE MemberNames(Get(Get(data, "query", <<>>), "categorymembers", <<>>))

\* lines 376-380
WorkList(wiki_trainers) ==
    LET merged == sorted(Range(HARDCODED_TRAINERS) \cup Range(wiki_trainers))
    IN  SelectSeq(merged, LAMBDA t : t \notin skip_names)

-----------------------------------------------------------------------------
(* main: one action per step of a run                                      *)

MaxRuns == 3

\* wikitext of the pages of the model
DocGood1 ==
    <<"===", " ", "Interesting", " ", "===", NL,
      "!colspan=", "\"", "2", "\"", "|", "Food", NL, "|", "X">>
DocGood2 ==
    <<"===", " ", "Interesting", " ", "===", NL,
      "!colspan=", "\"", "2", "\"", "|", "Food", NL, "|", "X", "|", "|", "Y">>
DocEmpty ==
    <<"===", " ", "Interesting", " ", "===", NL, "==", " ", "Scrapbook", " ", "==">>

PageOf(doc) == [parse |-> [title |-> "page", wikitext |-> ("*" :> doc)]]

PagePayloads ==
    {<<>>,
     [error |-> [code |-> "missingtitle", info |-> "no such page"]],
     [parse |-> [title |-> "page"]],
     PageOf(DocGood1), PageOf(DocGood2), PageOf(DocEmpty)}

AttemptsFor(payloads) ==
    {<<Json(p)>> : p \in payloads}
    \cup {<<Failure("http_error"), Json(p)>> : p \in payloads}
    \cup {<<Failure("non_json"), Failure("exception"), Json(p)>> : p \in payloads}
    \cup {<<Failure("http_error"), Failure("non_json"), Failure("exception")>>,
          <<Failure("exception"), Failure("exception"), Failure("http_error"),
            Json(PageOf(DocGood1))>>}

MemberList ==
    [query |-> [categorymembers |->
        <<[title |-> <<"Trainer Lodge">>],
          [title |-> <<"Trainer Lodge/", "Expeditions">>],
          [title |-> <<"Trainer Lodge/", "Blue">>],
          [title |-> <<"Trainer Lodge/">>],
          [ns |-> "0"]>>]]

DiscoveryPayloads ==
    {[batchcomplete |-> ""], [query |-> [categorymembers |-> <<>>]], MemberList}

\* data["parse"]["wikitext"]["*"] raises neither KeyError nor TypeError
HasMarkup(data) ==
    /\ "parse" \in DOMAIN data
    /\ "wikitext" \in DOMAIN data.parse
    /\ "*" \in DOMAIN data.parse.wikitext

\* lines 408-441: what one iteration does with the data api_request gave;
\* last_call is "sleep" when the iteration reached time.sleep(0.5) and
\* "fetch" when it left through a continue
Failed(nd, errs, name) ==
    [new_data |-> nd, errors |-> Append(errs, name), last_call |-> "fetch"]

\* faulty variant: a record with zero sections is recorded nowhere
Parsed_DropEmpty(nd, errs, name, trainer_result) ==
    IF Cardinality(DOMAIN trainer_result.tiers) > 0
    THEN [new_data |-> Put(nd, name, trainer_result), errors |-> errs,
          last_call |-> "sleep"]
    ELSE [new_data |-> nd, errors |-> errs, last_call |-> "sleep"]

\* faulty variant: a record with zero sections is stored like any other
Parsed_KeepEmpty(nd, errs, name, trainer_result) ==
    [new_data |-> Put(nd, name, trainer_result), errors |-> errs,
     last_call |-> "sleep"]

Parsed(nd, errs, name, trainer_result) ==
    IF Cardinality(DOMAIN trainer_result.tiers) > 0
    THEN [new_data |-> Put(nd, name, trainer_result), errors |-> errs,
          last_call |-> "sleep"]
    ELSE [new_data |-> nd, errors |-> Append(errs, name), last_call |-> "sleep"]

Iteration(nd, errs, name, data) ==
    IF data = None \/ data = <<>> THEN Failed(nd, errs, name)
    ELSE IF "error" \in DOMAIN data THEN Failed(nd, errs, name)
    ELSE IF ~HasMarkup(data) THEN Failed(nd, errs, name)
    ELSE Parsed(nd, errs, name, parse_wikitext(data.parse.wikitext["*"], name))

\* faulty variant: half of the identifiers failing already aborts
ExitCode_AtLeastHalf(errors_, total) == IF 2 * Len(errors_) >= total THEN 1 ELSE 0

\* lines 479-481: len(errors) > total * 0.5
ExitCode(errors_, total) == IF 2 * Len(errors_) > total THEN 1 ELSE 0

parserVars == <<wikitext, result>>

\* lines 363-392
Start ==
    /\ pc \in {"idle", "done"}
    /\ clock < MaxRuns
    /\ clock' = clock + 1
    /\ existing_data' = load_existing_data(dataFile)
    /\ changelog' = load_changelog(changelogFile)
    /\ \E attempts \in AttemptsFor(DiscoveryPayloads) :
          all_trainers' = WorkList(discover_trainers(api_request(attempts)))
    /\ new_data' = <<>>
    /\ errors' = <<>>
    /\ changes' = <<>>
    /\ i' = 0
    /\ exit_code' = -1
    /\ last_call' = "none"
    /\ fetched' = <<>>
    /\ prev_errors' = IF dataFile = <<>> THEN <<>>
                      ELSE dataFile[1]["_metadata"].errors
    /\ pc' = "loop"
    /\ UNCHANGED <<dataFile, changelogFile, quiet, parserVars>>

\* lines 394-441, one iteration
LoopBody ==
    /\ pc = "loop"
    /\ i < Len(all_trainers)
    /\ \E attempts \in AttemptsFor(PagePayloads) :
          LET name == all_trainers[i + 1]
              data == api_request(attempts)
              step == Iteration(new_data, errors, name, data)
          IN  /\ new_data' = step.new_data
              /\ errors' = step.errors
              /\ last_call' = step.last_call
              /\ fetched' = Append(fetched, [name |-> name, data |-> data])
    /\ i' = i + 1
    /\ UNCHANGED <<pc, dataFile, changelogFile, clock, existing_data, changelog,
                   all_trainers, changes, exit_code, prev_errors, quiet,
                   parserVars>>

\* line 448
Compare ==
    /\ pc = "loop"
    /\ i = Len(all_trainers)
    /\ changes' = compare_data(existing_data, new_data)
    /\ pc' = "save"
    /\ UNCHANGED <<dataFile, changelogFile, clock, existing_data, changelog,
                   all_trainers, i, new_data, errors, exit_code, last_call,
                   fetched, prev_errors, quiet, parserVars>>

\* line 466
Save ==
    /\ pc = "save"
    /\ LET saved == save_data(new_data, changes, changelog, errors, clock)
       IN  /\ dataFile' = <<saved.data>>
           /\ changelogFile' = <<saved.changelog>>
           /\ changelog' = saved.changelog
    /\ pc' = "summary"
    /\ UNCHANGED <<clock, existing_data, all_trainers, i, new_data, errors,
                   changes, exit_code, last_call, fetched, prev_errors, quiet,
                   parserVars>>

\* lines 478-483
Exit ==
    /\ pc = "summary"
    /\ exit_code' = ExitCode(errors, Len(all_trainers))
    /\ pc' = "done"
    /\ UNCHANGED <<dataFile, changelogFile, clock, existing_data, changelog,
                   all_trainers, i, new_data, errors, changes, last_call,
                   fetched, prev_errors, quiet, parserVars>>

\* a fresh checkout: neither file exists
Init ==
    /\ pc = "idle"
    /\ dataFile = <<>>
    /\ changelogFile = <<>>
    /\ clock = 0
    /\ existing_data = <<>>
    /\ changelog = [updates |-> <<>>]
    /\ all_trainers = <<>>
    /\ i = 0
    /\ new_data = <<>>
    /\ errors = <<>>
    /\ changes = <<>>
    /\ exit_code = -1
    /\ last_call = "none"
    /\ fetched = <<>>
    /\ prev_errors = <<>>
    /\ quiet = 0
    /\ wikitext = <<>>
    /\ result = <<>>

Next == Start \/ LoopBody \/ Compare \/ Save \/ Exit

Spec == Init /\ [][Next]_vars

-----------------------------------------------------------------------------
(* The parser on its own: every document of up to MaxLines lines           *)

MaxLines == 4

ParseLines ==
    {<<>>,
     <<"|", "-">>,
     <<"===", " ", "Interesting", " ", "===">>,
     <<"===", "Exciting", "===">>,
     <<"==", " ", "Scrapbook", " ", "==">>,
     <<"!colspan=", "\"", "2", "\"", "|", "Food">>,
     <<"!colspan=", "3", "|", " ", "Pok", "emon", " ", "Type">>,
     <<"|", "X">>,
     <<" ", "|", " ", "X", " ", "|", "|", "Y", " ">>,
     <<"|", "class=", "X">>}

Documents ==
    {Join(ls, <<NL>>) : ls \in UNION {[1..n -> ParseLines] : n \in 0..MaxLines}}

mainIdle ==
    /\ dataFile = <<>>
    /\ changelogFile = <<>>
    /\ clock = 0
    /\ changelog = [updates |-> <<>>]
    /\ all_trainers = <<>>
    /\ i = 0
    /\ errors = <<>>
    /\ exit_code = -1
    /\ last_call = "none"
    /\ fetched = <<>>
    /\ prev_errors = <<>>
    /\ quiet = 0

InitParse ==
    /\ pc = "parse_input"
    /\ wikitext \in Documents
    /\ result = <<>>
    /\ existing_data = <<>>
    /\ new_data = <<>>
    /\ changes = <<>>
    /\ mainIdle

mainVars ==
    <<dataFile, changelogFile, clock, changelog, all_trainers, i, errors,
      exit_code, last_call, fetched, prev_errors, quiet>>

ParseWikitext ==
    /\ pc = "parse_input"
    /\ result' = parse_wikitext(wikitext, "Acerola")
    /\ pc' = "parsed_wikitext"
    /\ UNCHANGED <<wikitext, existing_data, new_data, changes, mainVars>>

ParseTierContent ==
    /\ pc = "parse_input"
    /\ result' = parse_tier_content(wikitext)
    /\ pc' = "parsed_tier"
    /\ UNCHANGED <<wikitext, existing_data, new_data, changes, mainVars>>

NextParse == ParseWikitext \/ ParseTierContent

SpecParse == InitParse /\ [][NextParse]_vars

-----------------------------------------------------------------------------
(* The change detector on its own: every pair of bounded datasets          *)

X == <<"X">>
Y == <<"Y">>
Food == <<"Food">>
Pokemon == <<"Pok", "emon">>

\* the non-empty category mappings with keys among names and lists among lists
CatMaps(names, lists) ==
    UNION {[S -> lists] : S \in (SUBSET names) \ {{}}}

DiffTopicLists == {<<>>, <<X>>, <<Y>>, <<X, X>>, <<X, Y>>, <<Y, X>>}

\* tier mappings as parse_wikitext builds them: at least one section, each
\* with at least one category
DiffTiers ==
    LET interesting == CatMaps({Food, Pokemon}, DiffTopicLists)
        exciting    == CatMaps({Food}, {<<>>, <<X>>})
    IN  {("Interesting" :> a) : a \in interesting}
        \cup {("Exciting" :> b) : b \in exciting}
        \cup {("Interesting" :> a) @@ ("Exciting" :> b) :
                 a \in interesting, b \in exciting}

BlueRecord == [name |-> "Blue", tiers |-> ("Exciting" :> (Food :> <<X>>))]

DiffDatasets ==
    LET acerola == {<<>>} \cup {("Acerola" :> [name |-> "Acerola", tiers |-> t]) :
                                   t \in DiffTiers}
        blue    == {<<>>, ("Blue" :> BlueRecord)}
    IN  {a @@ b : a \in acerola, b \in blue}

InitDiff ==
    /\ pc = "diff_input"
    /\ existing_data \in DiffDatasets
    /\ new_data \in DiffDatasets
    /\ changes = <<>>
    /\ wikitext = <<>>
    /\ result = <<>>
    /\ mainIdle

CompareData ==
    /\ pc = "diff_input"
    /\ changes' = compare_data(existing_data, new_data)
    /\ pc' = "diff_done"
    /\ UNCHANGED <<existing_data, new_data, parserVars, mainVars>>

NextDiff == CompareData

SpecDiff == InitDiff /\ [][NextDiff]_vars

-----------------------------------------------------------------------------
(* The changelog over many runs: load, compare, save                       *)

MaxSaves == 60
MaxQuiet == 1

LogDataA == ("Acerola" :> parse_wikitext(DocGood1, "Acerola"))
LogDataB == ("Acerola" :> parse_wikitext(DocGood2, "Acerola"))

\* a changelog that earlier runs left: n entries, most recent first
History(n) ==
    [k \in 1..n |->
        [date |-> 1 - k, trainer_count |-> 1, change_count |-> 1,
         changes |-> <<RemovedTrainerRecord("Blue")>>]]

InitLens == {0, 1, KeepLast - 1, KeepLast}

InitLog ==
    /\ pc = "log"
    /\ dataFile = <<>>
    /\ \E n \in InitLens : changelogFile = <<[updates |-> History(n)]>>
    /\ clock = 0
    /\ existing_data = <<>>
    /\ changelog = [updates |-> <<>>]
    /\ all_trainers = <<>>
    /\ i = 0
    /\ new_data = <<>>
    /\ errors = <<>>
    /\ changes = <<>>
    /\ exit_code = -1
    /\ last_call = "none"
    /\ fetched = <<>>
    /\ prev_errors = <<>>
    /\ quiet = 0
    /\ wikitext = <<>>
    /\ result = <<>>

\* one run whose scrape gave the dataset nd: lines 363-364, 448, 466
SaveRun ==
    /\ pc = "log"
    /\ clock < MaxSaves
    /\ \E nd \in {LogDataA, LogDataB} :
          LET old   == load_existing_data(dataFile)
              ch    == compare_data(old, nd)
              saved == save_data(nd, ch, load_changelog(changelogFile), <<>>,
                                 clock + 1)
          IN  /\ ch = <<>> => quiet < MaxQuiet
              /\ existing_data' = old
              /\ new_data' = nd
              /\ changes' = ch
              /\ changelog' = saved.changelog
              /\ dataFile' = <<saved.data>>
              /\ changelogFile' = <<saved.changelog>>
              /\ quiet' = IF ch = <<>> THEN quiet + 1 ELSE quiet
    /\ clock' = clock + 1
    /\ UNCHANGED <<pc, all_trainers, i, errors, exit_code, last_call, fetched,
                   prev_errors, parserVars>>

NextLog == SaveRun

SpecLog == InitLog /\ [][NextLog]_vars

-----------------------------------------------------------------------------
(* Claims about compare_data (SpecDiff)                                    *)

NewIn(chs) == {c.trainer : c \in {d \in Range(chs) : d.type = "new_trainer"}}
RemovedIn(chs) == {c.trainer : c \in {d \in Range(chs) : d.type = "removed_trainer"}}
ModifiedIn(chs) == {c \in Range(chs) : c.type = "modified_trainer"}

\* C3: comparing a dataset with itself gives the empty list of changes.
C3_Idempotent ==
    (pc = "diff_done" /\ existing_data = new_data) => changes = <<>>

C3_Witness ==
    /\ pc = "diff_done"
    /\ existing_data = new_data
    /\ DOMAIN existing_data = {"Acerola", "Blue"}
    /\ changes = <<>>

\* C8: a name is new in compare_data(A, B) exactly when it is removed in
\* compare_data(B, A), and removed in compare_data(A, B) exactly when it is
\* new in compare_data(B, A).
C8_Symmetric ==
    pc = "diff_done" =>
        LET back == compare_data(new_data, existing_data)
        IN  /\ NewIn(changes) = RemovedIn(back)
            /\ RemovedIn(changes) = NewIn(back)

C8_Witness ==
    /\ pc = "diff_done"
    /\ NewIn(changes) = {"Blue"}
    /\ RemovedIn(changes) = {"Acerola"}
    /\ RemovedIn(compare_data(new_data, existing_data)) = {"Blue"}

\* the (section, category) pairs of two tier mappings, and the added and
\* removed entries of a pair, a missing section or category counting as empty
PairsOf(old_tiers, new_tiers) ==
    {<<t, c>> \in ((DOMAIN old_tiers) \cup (DOMAIN new_tiers))
                  \X {Food, Pokemon} :
        c \in (DOMAIN Get(old_tiers, t, <<>>)) \cup (DOMAIN Get(new_tiers, t, <<>>))}

TopicsAt(tiers, t, c) == Range(Get(Get(tiers, t, <<>>), c, <<>>))

AddedAt(old_tiers, new_tiers, t, c) ==
    TopicsAt(new_tiers, t, c) \ TopicsAt(old_tiers, t, c)

RemovedAt(old_tiers, new_tiers, t, c) ==
    TopicsAt(old_tiers, t, c) \ TopicsAt(new_tiers, t, c)

DifferingPairs(old_tiers, new_tiers) ==
    {p \in PairsOf(old_tiers, new_tiers) :
        \/ AddedAt(old_tiers, new_tiers, p[1], p[2]) # {}
        \/ RemovedAt(old_tiers, new_tiers, p[1], p[2]) # {}}

\* the diff lines of a modified-entity record: details.split("; ")
DiffLines(record) == Split(record.details, <<"; ">>)

\* a modified-entity record is emitted exactly when some pair differs, and
\* there is at most one record per name
ModifiedIff(name) ==
    LET old_tiers == existing_data[name].tiers
        new_tiers == new_data[name].tiers
        records == {c \in ModifiedIn(changes) : c.trainer = name}
    IN  /\ (records # {}) <=> (DifferingPairs(old_tiers, new_tiers) # {})
        /\ Cardinality(records) <= 1
        /\ Cardinality({k \in DOMAIN changes :
                           changes[k].type = "modified_trainer"
                           /\ changes[k].trainer = name}) <= 1

\* C2 as stated: the record carries one diff line per differing pair.
C2_OneLinePerPair ==
    pc = "diff_done" =>
        \A name \in (DOMAIN existing_data) \cap (DOMAIN new_data) :
            /\ ModifiedIff(name)
            /\ \A r \in {c \in ModifiedIn(changes) : c.trainer = name} :
                  Len(DiffLines(r)) =
                      Cardinality(DifferingPairs(existing_data[name].tiers,
                                                 new_data[name].tiers))

\* C2 amended: the record is emitted exactly when some (section, category)
\* pair has a non-empty added or removed set; it carries one diff line per
\* non-empty added set and one per non-empty removed set, so a pair with
\* both carries two lines; order-only differences give no record.
C2_OneLinePerDirection ==
    pc = "diff_done" =>
        \A name \in (DOMAIN existing_data) \cap (DOMAIN new_data) :
            LET old_tiers == existing_data[name].tiers
                new_tiers == new_data[name].tiers
                pairs == PairsOf(old_tiers, new_tiers)
            IN  /\ ModifiedIff(name)
                /\ \A r \in {c \in ModifiedIn(changes) : c.trainer = name} :
                      Len(DiffLines(r)) =
                          Cardinality({p \in pairs :
                              AddedAt(old_tiers, new_tiers, p[1], p[2]) # {}})
                          + Cardinality({p \in pairs :
                              RemovedAt(old_tiers, new_tiers, p[1], p[2]) # {}})

\* a record whose pair Interesting/Food has both added and removed entries,
\* next to a pair that differs in order only
C2_Witness ==
    /\ pc = "diff_done"
    /\ "Acerola" \in (DOMAIN existing_data) \cap (DOMAIN new_data)
    /\ LET old_tiers == existing_data["Acerola"].tiers
           new_tiers == new_data["Acerola"].tiers
       IN  /\ AddedAt(old_tiers, new_tiers, "Interesting", Food) # {}
           /\ RemovedAt(old_tiers, new_tiers, "Interesting", Food) # {}
           /\ TopicsAt(old_tiers, "Interesting", Pokemon)
                  = TopicsAt(new_tiers, "Interesting", Pokemon)
           /\ Pokemon \in DOMAIN Get(old_tiers, "Interesting", <<>>)
           /\ Pokemon \in DOMAIN Get(new_tiers, "Interesting", <<>>)
           /\ old_tiers["Interesting"][Pokemon] # new_tiers["Interesting"][Pokemon]
    /\ \E r \in ModifiedIn(changes) : r.trainer = "Acerola" /\ Len(DiffLines(r)) = 2

-----------------------------------------------------------------------------
(* Claims about the parser (SpecParse)                                     *)

\* C6 as stated: every section of a parse_wikitext result holds a category
\* whose entry list is non-empty.
C6_SectionHasEntries ==
    pc = "parsed_wikitext" =>
        \A t \in DOMAIN result.tiers :
            \E c \in DOMAIN result.tiers[t] : result.tiers[t][c] # <<>>

\* C6 amended: every section of a parse_wikitext result is one of the three
\* section names and holds at least one category; the category's entry list
\* may be empty.
C6_SectionHasCategory ==
    pc = "parsed_wikitext" =>
        /\ DOMAIN result.tiers \subseteq TierNames
        /\ \A t \in DOMAIN result.tiers : DOMAIN result.tiers[t] # {}

\* a document with a section that has no category (left out) and a section
\* whose only category has no entry (kept)
C6_Witness ==
    /\ pc = "parsed_wikitext"
    /\ Len(tier_matches(wikitext, 1)) = 2
    /\ DOMAIN result.tiers = {"Interesting"}
    /\ \A c \in DOMAIN result.tiers["Interesting"] :
          result.tiers["Interesting"][c] = <<>>

\* the lines of a section as parse_tier_content sees them
SectionLines(content) ==
    LET raw == Split(content, <<NL>>) IN [k \in 1..Len(raw) |-> Strip(raw[k])]

IsTableLine(line) ==
    line = <<>> \/ line = <<"|", "-">> \/ line = <<"|", "}">>
    \/ StartsWith(line, <<"{", "|">>)

IsCategoryHeader(line) == ~IsTableLine(line) /\ cat_match(line) # <<>>

\* the normalized name of a category header
HeaderName(line) ==
    LET c == Strip(cat_match(line))
    IN  IF Contains(c, <<"Pok">>) THEN <<"Pok", "emon">> ELSE c

\* the entries an entry line gives under an active category
EntriesOf(line) ==
    IF IsTableLine(line) \/ IsCategoryHeader(line) \/ ~StartsWith(line, <<"|">>)
    THEN <<>>
    ELSE LET raw == Strip(Tail(line))
         IN  IF raw = <<>> \/ StartsWith(raw, <<"class=">>)
                \/ StartsWith(raw, <<"style=">>)
             THEN <<>>
             ELSE TopicsOf(raw)

\* the entries of lines[from..to], in order
RECURSIVE EntriesBetween(_, _, _)
EntriesBetween(lines, from, to) ==
    IF from > to THEN <<>>
    ELSE EntriesOf(lines[from]) \o EntriesBetween(lines, from + 1, to)

HeaderIndexes(lines) == {k \in DOMAIN lines : IsCategoryHeader(lines[k])}

\* C7: the keys of parse_tier_content's result are exactly the normalized
\* names of the category headers of the section; the list of a key holds, in
\* order, the entries between the last header of that name and the next
\* category header (or the end); entries before the first header are in no
\* list.
C7_CategoryStateMachine ==
    pc = "parsed_tier" =>
        LET lines == SectionLines(wikitext)
            heads == HeaderIndexes(lines)
            Last(key) == CHOOSE k \in heads :
                            /\ HeaderName(lines[k]) = key
                            /\ \A h \in heads : HeaderName(lines[h]) = key => h <= k
            NextHead(k) == IF \E h \in heads : h > k
                           THEN CHOOSE h \in heads :
                                    h > k /\ \A g \in heads : g > k => h <= g
                           ELSE Len(lines) + 1
        IN  /\ DOMAIN result = {HeaderName(lines[k]) : k \in heads}
            /\ \A key \in DOMAIN result :
                  result[key] = EntriesBetween(lines, Last(key) + 1,
                                               NextHead(Last(key)) - 1)

\* an entry before the first header, a header with entries, and the same
\* header again: the list is reset
C7_Witness ==
    /\ pc = "parsed_tier"
    /\ LET lines == SectionLines(wikitext)
           heads == HeaderIndexes(lines)
       IN  /\ \E j \in heads, k \in heads :
                 /\ j < k
                 /\ HeaderName(lines[j]) = HeaderName(lines[k])
                 /\ EntriesBetween(lines, j + 1, k - 1) # <<>>
           /\ \E e \in DOMAIN lines :
                 /\ EntriesOf(lines[e]) # <<>>
                 /\ \A h \in heads : e < h
    /\ DOMAIN result = {Food}
    /\ result[Food] = <<>>

-----------------------------------------------------------------------------
(* Claim about the changelog (SpecLog)                                     *)

Updates == changelogFile[1].updates

\* the stored history is capped and ordered most recent first; when every
\* run so far had changes, it is the runs' entries, newest first, followed by
\* the earlier history, cut to KeepLast entries
LogCapped ==
    /\ Len(Updates) <= KeepLast
    /\ \A k \in 1..(Len(Updates) - 1) : Updates[k].date > Updates[k + 1].date
    /\ (quiet = 0 /\ clock >= KeepLast) =>
          /\ Len(Updates) = KeepLast
          /\ \A k \in 1..KeepLast : Updates[k].date = clock + 1 - k

\* a save with changes puts the run's entry first and keeps what fits of the
\* earlier entries; a save without changes leaves the history as it was
LogStep ==
    clock' = clock + 1 =>
        LET before == changelogFile[1].updates
            after  == changelogFile'[1].updates
        IN  IF changes' # <<>>
            THEN /\ after[1].date = clock'
                 /\ after[1].changes = changes'
                 /\ Tail(after) = SubSeq(before, 1, Len(after) - 1)
                 /\ Len(after) = IF Len(before) < KeepLast
                                 THEN Len(before) + 1 ELSE KeepLast
            ELSE after = before

\* C1: from a history of at most 50 entries, the stored changelog never
\* holds more than 50 entries and is ordered most recent first; each save
\* with changes puts the new entry at position 0 and evicts only the oldest
\* entries beyond 50; after 60 runs with changes it holds the entries of the
\* 50 most recent runs, newest first.
C1_ChangelogCap == []LogCapped /\ [][LogStep]_vars

C1_Witness ==
    /\ pc = "log"
    /\ clock = 60
    /\ quiet = 0
    /\ Len(Updates) = 50
    /\ Updates[1].date = 60
    /\ Updates[50].date = 11

-----------------------------------------------------------------------------
(* Claims about the run loop (Spec)                                        *)

\* the identifier ends in the error list: no usable response, an API error,
\* no markup field, or zero sections parsed
BadFetch(name, data) ==
    \/ data = None
    \/ data = <<>>
    \/ "error" \in DOMAIN data
    \/ ~HasMarkup(data)
    \/ parse_wikitext(data.parse.wikitext["*"], name).tiers = <<>>

Occurrences(seq, x) == Cardinality({k \in DOMAIN seq : seq[k] = x})

LoopDone ==
    \/ pc \in {"save", "summary", "done"}
    \/ pc = "loop" /\ i = Len(all_trainers)

\* C4: every identifier of the work list is processed exactly once, in
\* order, whatever happened to the earlier ones; once processed it is either
\* a key of new_data or (once) in errors, never both; it is in errors exactly
\* when its fetch gave no usable response, an API error, no markup field, or
\* the parser gave zero sections.
C4_PerIdentifierRecovery ==
    /\ Len(fetched) = i
    /\ i <= Len(all_trainers)
    /\ LoopDone => i = Len(all_trainers)
    /\ \A k \in 1..i :
          LET name == all_trainers[k]
          IN  /\ fetched[k].name = name
              /\ Occurrences(all_trainers, name) = 1
              /\ (name \in DOMAIN new_data) # (name \in Range(errors))
              /\ Occurrences(errors, name) <= 1
              /\ (name \in Range(errors)) <=> BadFetch(name, fetched[k].data)
    /\ (DOMAIN new_data) \cup Range(errors) = {all_trainers[k] : k \in 1..i}

\* the first identifier failed without a response and the second was still
\* fetched and stored
C4_Witness ==
    /\ pc = "save"
    /\ Len(all_trainers) = 2
    /\ fetched[1].data = None
    /\ errors = <<all_trainers[1]>>
    /\ DOMAIN new_data = {all_trainers[2]}

Errored == {k \in DOMAIN fetched : BadFetch(fetched[k].name, fetched[k].data)}

\* C5: a run ends with exit code 1 exactly when more than half of the
\* identifiers processed errored, and with exit code 0 otherwise.
C5_CircuitBreaker ==
    pc = "done" =>
        /\ exit_code \in {0, 1}
        /\ (exit_code = 1) <=> (2 * Cardinality(Errored) > Len(all_trainers))

\* exactly half of the identifiers failed: exit code 0
C5_Witness ==
    /\ pc = "done"
    /\ Len(all_trainers) = 2
    /\ Cardinality(Errored) = 1
    /\ exit_code = 0

\* C9: when the fetch of a next identifier is due, the last thing the loop
\* did was the fixed pause.
C9_PauseBeforeNextFetch ==
    (pc = "loop" /\ 0 < i /\ i < Len(all_trainers)) => last_call = "sleep"

Succeeded ==
    {fetched[k].name :
        k \in {j \in DOMAIN fetched : ~BadFetch(fetched[j].name, fetched[j].data)}}

SnapshotKeys == (DOMAIN dataFile[1]) \ {"_metadata"}

\* C10: once a run has saved, the keys of the snapshot other than the
\* metadata key are the identifiers fetched and parsed successfully in that
\* run, whatever the exit code; an identifier of the previous snapshot that
\* errored is reported removed, is no key of the snapshot and is in the
\* metadata's error list; an identifier that succeeds and is not in the
\* previous snapshot, as one that errored in the previous run, is reported
\* new.
C10_FailedIdentifierAcrossRuns ==
    pc \in {"summary", "done"} =>
        /\ SnapshotKeys = Succeeded
        /\ \A n \in (DOMAIN existing_data) \cap Range(errors) :
              /\ n \in RemovedIn(changes)
              /\ n \notin SnapshotKeys
              /\ n \in Range(dataFile[1]["_metadata"].errors)
        /\ Range(prev_errors) \cap (DOMAIN existing_data) = {}
        /\ \A n \in Succeeded :
              (n \in Range(prev_errors) \/ n \notin DOMAIN existing_data)
                  => n \in NewIn(changes)

\* third run: Blue, stored by the first run and reported removed by the
\* second because it errored, succeeds and is reported new, while Acerola,
\* stored by the second run, errors
C10_Witness ==
    /\ pc = "done"
    /\ exit_code = 0
    /\ Len(Updates) = 3
    /\ "Blue" \in NewIn(Updates[3].changes)
    /\ "Blue" \in RemovedIn(Updates[2].changes)
    /\ "Blue" \in NewIn(Updates[1].changes)
    /\ "Blue" \in Range(prev_errors)
    /\ "Blue" \in SnapshotKeys
    /\ "Acerola" \in Range(errors) \cap DOMAIN existing_data

=============================================================================
